---- MODULE Spec2Model ----
(***************************************************************************)
(* State-machine model of the bevy_editor_pls docking/panel host core      *)
(* (crates/bevy_editor_pls_core/src/editor.rs, editor_inputs.rs).          *)
(*                                                                         *)
(* Screen geometry is projected on one axis: a position is an integer of   *)
(* 0..MaxCoord and an egui::Rect is a closed interval <<min, max>>         *)
(* (egui's Rect::contains is inclusive on both ends).  Option<T> is a      *)
(* sequence of length 0 (None) or 1 (Some).  A TypeId is a string.         *)
(***************************************************************************)
EXTENDS Integers, Sequences, FiniteSets, TLC

\* ------------------------------------------------------------- bounds
MaxCoord == 2
MaxId == 2
MaxTabs == 3
MaxPanes == 2
MaxEvents == 1

\* ------------------------------------------------------------- data
Plugins == {"A", "B"}

\* The plugin types an application can name: those of Plugins and one more.
Types == Plugins \cup {"C"}

\* W::menu_bar_order() of the plugin types: A declares a higher rank than B
\* and C, which declare the same.
menu_bar_order(W) == IF W = "A" THEN 10 ELSE 5

NoneOpt == <<>>
Some(x) == <<x>>
IsSome(o) == Len(o) = 1

GameView == "GameView"
CustomWindow(w) == w

OwnerNone == "None"
OwnerViewport == "Viewport"
OwnerEditor == "Editor"

Coords == 0..MaxCoord
RectZero == <<0, 0>>
Contains(rect, pos) == rect[1] <= pos /\ pos <= rect[2]

Toggle(now_active) == [event |-> "Toggle", now_active |-> now_active]

\* The values a plugin's state takes: the default-constructed one and one
\* a caller of window_state_mut has written.
Cameras == {"default", "pan_orbit"}

SeqToSet(s) == {s[i] : i \in 1..Len(s)}

\* Variant of SwapRemove: the last element is dropped whatever the index
\* (Vec::pop in place of Vec::swap_remove).
SwapRemovePop(s, i) == SubSeq(s, 1, Len(s) - 1)

\* Vec::swap_remove at the 1-based index i: the last element takes its place.
SwapRemove(s, i) ==
    IF i = Len(s) THEN SubSeq(s, 1, Len(s) - 1)
    ELSE [SubSeq(s, 1, Len(s) - 1) EXCEPT ![i] = s[Len(s)]]

\* Remove the element at the 1-based index i, keeping the order (Vec::remove).
RemoveAt(s, i) == SubSeq(s, 1, i - 1) \o SubSeq(s, i + 1, Len(s))

\* Variant of SortByKey: an element goes before the elements of equal key.
RECURSIVE SortByKeyUnstable(_)
SortByKeyUnstable(s) ==
    IF s = <<>> THEN <<>>
    ELSE LET rest == SortByKeyUnstable(SubSeq(s, 1, Len(s) - 1))
             x == s[Len(s)]
             k == Cardinality({i \in 1..Len(rest) : rest[i][2] < x[2]})
         IN  SubSeq(rest, 1, k) \o <<x>> \o SubSeq(rest, k + 1, Len(rest))

\* slice::sort_by_key(|&(_, order)| order) on a sequence of <<index, order>>:
\* a stable sort, computed by insertion after the elements of equal key.
RECURSIVE SortByKey(_)
SortByKey(s) ==
    IF s = <<>> THEN <<>>
    ELSE LET rest == SortByKey(SubSeq(s, 1, Len(s) - 1))
             x == s[Len(s)]
             k == Cardinality({i \in 1..Len(rest) : rest[i][2] <= x[2]})
         IN  SubSeq(rest, 1, k) \o <<x>> \o SubSeq(rest, k + 1, Len(rest))

\* editor, internal_state, editor_events: the three resources of the
\* session.  op: the operation of the last step.  input: what the last
\* step was given.  calls: the plugin callbacks the last step invoked, in
\* order, as <<callback, plugin>>.
VARIABLES editor, internal_state, editor_events, op, input, calls

vars == <<editor, internal_state, editor_events, op, input, calls>>

\* A panic ends the application.
Panicked == op \in {"add_window_panic", "redraw_panic"}

\* ------------------------------------------------------------- egui_dock
\* DockState<TreeTab> as the editor uses it: the leaves (panes) of the main
\* surface in node order, each with its tabs and its active TabIndex
\* (0-based), the focused surface (only the main one exists) and the
\* tree's focused node (0: none, else the pane's position).
Leaf(tabs, active) == [tabs |-> tabs, active |-> active]

DockStateNew(tabs) ==
    [panes |-> <<Leaf(tabs, 0)>>, focused_surface |-> FALSE, focused_node |-> 0]

\* DockState::focused_leaf: the focused surface's focused node.
FocusedLeaf(d) ==
    IF d.focused_surface /\ d.focused_node # 0 THEN Some(d.focused_node) ELSE NoneOpt

\* Tree::push_to_focused_leaf: the tab is appended to the focused leaf (the
\* first leaf when none is focused), becomes its active tab, and the leaf
\* becomes the tree's focused node; the focused surface is not changed.
DockPushToFocusedLeaf(d, tab) ==
    IF Len(d.panes) = 0
    THEN [d EXCEPT !.panes = <<Leaf(<<tab>>, 0)>>, !.focused_node = 1]
    ELSE LET n == IF d.focused_node = 0 THEN 1 ELSE d.focused_node
             p == d.panes[n]
         IN  [d EXCEPT !.panes[n] = Leaf(Append(p.tabs, tab), Len(p.tabs)),
                       !.focused_node = n]

\* DockState::set_active_tab((surface, node, tab)).
DockSetActiveTab(d, n, tab_index) ==
    [d EXCEPT !.panes[n].active = tab_index]

\* DockState::split((SurfaceIndex::main(), parent), split, fraction, node):
\* a new leaf holding `tabs` is added and becomes the tree's focused node.
DockSplit(d, tabs) ==
    [d EXCEPT !.panes = Append(d.panes, Leaf(tabs, 0)),
              !.focused_node = Len(d.panes) + 1]

\* The tab a leaf shows.
ActiveTab(p) == IF p.active + 1 <= Len(p.tabs) THEN Some(p.tabs[p.active + 1]) ELSE NoneOpt

DockTabs(d) == UNION {SeqToSet(d.panes[n].tabs) : n \in 1..Len(d.panes)}
DockTabCount(d) ==
    LET RECURSIVE Sum(_)
        Sum(n) == IF n = 0 THEN 0 ELSE Len(d.panes[n].tabs) + Sum(n - 1)
    IN  Sum(Len(d.panes))

\* The user clicks tab t (1-based) of pane n: it becomes the active tab and
\* the pane gets the focus (set_focused_node_and_surface).
DockClickTab(d, n, t) ==
    [d EXCEPT !.panes[n].active = t - 1, !.focused_surface = TRUE, !.focused_node = n]

\* The user closes tab t (1-based) of pane n; a leaf left without tabs is
\* removed from the tree.
DockCloseTab(d, n, t) ==
    LET p == d.panes[n]
        tabs == RemoveAt(p.tabs, t)
        active == IF p.active >= Len(tabs) THEN (IF Len(tabs) = 0 THEN 0 ELSE Len(tabs) - 1)
                  ELSE p.active
    IN  IF Len(tabs) > 0
        THEN [d EXCEPT !.panes[n] = Leaf(tabs, active)]
        ELSE [d EXCEPT !.panes = RemoveAt(d.panes, n),
                       !.focused_node = IF d.focused_node = n THEN 0
                                        ELSE IF d.focused_node > n THEN d.focused_node - 1
                                        ELSE d.focused_node]

\* ------------------------------------------------------------- construction
\* Editor::new(on_window, always_active).
EditorNew(always_active) ==
    [always_active |-> always_active,
     active |-> always_active,
     pointer_used |-> FALSE,
     active_editor_interaction |-> OwnerNone,
     listening_for_text |-> FALSE,
     viewport |-> <<0, MaxCoord>>,
     windows |-> <<>>,
     window_states |-> [W \in {} |-> "default"],
     pointer_state |-> [press_active |-> FALSE,
                        press_start_in_viewport |-> FALSE,
                        viewport_pointer_pos |-> NoneOpt]]

\* impl Default for EditorInternalState.
EditorInternalStateDefault ==
    [state |-> DockStateNew(<<GameView>>),
     floating_windows |-> <<>>,
     next_floating_window_id |-> 0,
     closed_floating_windows |-> {}]

\* ------------------------------------------------------------- Editor queries
\* Editor::set_active: the warning is logged and the flag is assigned.
set_active(e, active) == [e EXCEPT !.active = active]

is_in_viewport(e, pos) == Contains(e.viewport, pos)

\* Editor::pointer_used().
PointerUsed(e) == e.pointer_used \/ e.active_editor_interaction = OwnerEditor

\* Editor::viewport_interaction_active().
ViewportInteractionActive(e) ==
    ~e.pointer_used \/ e.active_editor_interaction = OwnerViewport

\* Editor::extract_viewport_pointer_pos: the cursor relative to the tab's ui.
extract_viewport_pointer_pos(e, latest_pos, min_rect) ==
    IF ~IsSome(latest_pos)
    THEN [e EXCEPT !.pointer_state.viewport_pointer_pos = NoneOpt]
    ELSE [e EXCEPT !.pointer_state.viewport_pointer_pos = Some(latest_pos[1] - min_rect[1])]

\* ------------------------------------------------------------- layout store
\* Variant of push_to_focused_leaf: set_active_tab is not called.
push_to_focused_leaf_keep_pushed(is, W) ==
    [is EXCEPT !.state = DockPushToFocusedLeaf(is.state, CustomWindow(W))]

\* EditorInternalState::push_to_focused_leaf::<W>().
push_to_focused_leaf(is, W) ==
    LET pushed == DockPushToFocusedLeaf(is.state, CustomWindow(W))
        leaf == FocusedLeaf(pushed)
    IN  [is EXCEPT !.state = IF IsSome(leaf)
                             THEN DockSetActiveTab(pushed, leaf[1], 0)
                             ELSE pushed]

split(is, W) == [is EXCEPT !.state = DockSplit(is.state, <<CustomWindow(W)>>)]

\* split_many: one new leaf holding a tab for each of `windows`, in order.
split_many(is, windows) ==
    [is EXCEPT !.state = DockSplit(is.state, [i \in 1..Len(windows) |-> CustomWindow(windows[i])])]

has_floating_window(is, W) ==
    \E i \in 1..Len(is.floating_windows) : is.floating_windows[i].window = W

closed_floating_window(is, W) == W \in is.closed_floating_windows

\* Variant of next_floating_window_id: the counter is not incremented.
next_floating_window_id_stuck(is) == <<is.next_floating_window_id, is>>

\* EditorInternalState::next_floating_window_id: <<the id, the state after>>.
next_floating_window_id(is) ==
    <<is.next_floating_window_id,
      [is EXCEPT !.next_floating_window_id = is.next_floating_window_id + 1]>>

FloatingWindow(window, id, initial_position, current_rect) ==
    [window |-> window, id |-> id,
     initial_position |-> initial_position, current_rect |-> current_rect]

\* ------------------------------------------------------------- registry
\* The registration add_window::<W>() builds.
EditorWindowData(W) == [type_id |-> W, menu_bar_order |-> menu_bar_order(W)]

\* The keys of the IndexMap `windows`.
Registered(e) == {e.windows[i].type_id : i \in 1..Len(e.windows)}

\* IndexMap::insert(key, value): a new key is appended, the value of a
\* present key is replaced where it stands.
IndexMapInsert(windows, data) ==
    IF \E i \in 1..Len(windows) : windows[i].type_id = data.type_id
    THEN [i \in 1..Len(windows) |->
             IF windows[i].type_id = data.type_id THEN data ELSE windows[i]]
    ELSE Append(windows, data)

\* HashMap::insert on window_states.
StatesInsert(states, W, state) ==
    [X \in (DOMAIN states) \cup {W} |-> IF X = W THEN state ELSE states[X]]

\* `self.windows.insert(type_id, data).is_some()`: add_window::<W>() panics.
already_inserted(e, W) == W \in Registered(e)

\* Variant of add_window: the state is inserted before the registry is
\* asked, so a second registration resets the plugin's state.
add_window_reset(e, W) ==
    [e EXCEPT !.windows = IndexMapInsert(e.windows, EditorWindowData(W)),
              !.window_states = StatesInsert(e.window_states, W, "default")]

\* Variant of add_window: no state is constructed.
add_window_stateless(e, W) ==
    [e EXCEPT !.windows = IndexMapInsert(e.windows, EditorWindowData(W))]

\* Editor::add_window::<W>(): the editor the call leaves.  The registration
\* is inserted; for a plugin already registered the call panics there, and
\* otherwise the plugin's state is default-constructed.
add_window(e, W) ==
    LET inserted == [e EXCEPT !.windows = IndexMapInsert(e.windows, EditorWindowData(W))]
    IN  IF already_inserted(e, W) THEN inserted
        ELSE [inserted EXCEPT !.window_states =
                                 StatesInsert(e.window_states, W, "default")]

\* Editor::window_state::<W>() and what window_state_mut::<W>() hands out.
window_state(e, W) ==
    IF W \in DOMAIN e.window_states THEN Some(e.window_states[W]) ELSE NoneOpt

\* CameraWindow::set_active_camera as a caller of window_state_mut: the
\* state of a registered plugin is written, nothing without one.
set_active_camera(e, W, camera) ==
    IF ~IsSome(window_state(e, W)) THEN e
    ELSE [e EXCEPT !.window_states[W] = camera]

\* What the plugins do in their callbacks in one frame: nothing, or the
\* callback `callback` of plugin `plugin` adds a tab of plugin `window`
\* through the layout store of its context
\* (cx.internal_state.push_to_focused_leaf::<window>()).
NoScript == [callback |-> "none", plugin |-> "none", window |-> "none"]

Callbacks == {"menu_bar_ui", "viewport_toolbar_ui", "viewport_ui", "ui"}

\* The body of a callback, given the world with the call logged: the layout
\* store it writes to is the one the host passes in the context.
RunScript(w, callback, W) ==
    IF w.script.callback = callback /\ w.script.plugin = W
    THEN [w EXCEPT !.internal_state = push_to_focused_leaf(w.internal_state, w.script.window)]
    ELSE w

\* A plugin callback is invoked with EditorWindowContext {window_states,
\* internal_state}.
Call(w, callback, W) ==
    RunScript([w EXCEPT !.calls = Append(w.calls, <<callback, W>>)], callback, W)

\* One callback for every registration, in registration order
\* (self.windows.iter()).
RECURSIVE CallEach(_, _, _)
CallEach(w, callback, n) ==
    IF n = 0 THEN w
    ELSE Call(CallEach(w, callback, n - 1), callback, w.editor.windows[n].type_id)

\* ------------------------------------------------------------- menu bar
\* The menu-bar callbacks of the registrations `sorted_indices` names, in
\* its order.
RECURSIVE CallSorted(_, _)
CallSorted(w, sorted_indices) ==
    IF sorted_indices = <<>> THEN w
    ELSE LET window_index == sorted_indices[1][1]
         IN  CallSorted(Call(w, "menu_bar_ui", w.editor.windows[window_index].type_id),
                        Tail(sorted_indices))

\* Editor::draw_window_menu_items: the <<index, menu_bar_order>> pairs of
\* the registry are sorted by order and each plugin's menu-bar callback is
\* invoked.
draw_window_menu_items(w) ==
    LET windows == w.editor.windows
        sorted_indices == SortByKey([i \in 1..Len(windows) |->
                                        <<i, windows[i].menu_bar_order>>])
    IN  CallSorted(w, sorted_indices)

\* Variant of editor_menu_bar: Toggle carries the value before the flip.
editor_menu_bar_stale(w, in) ==
    draw_window_menu_items(
        IF ~w.editor.always_active /\ in.toggle_clicked
        THEN [w EXCEPT !.editor.active = ~w.editor.active,
                       !.editor_events = Append(w.editor_events, Toggle(w.editor.active))]
        ELSE w)

\* Editor::editor_menu_bar: the play/pause button exists only when the
\* editor is not always active; a click flips `active` and sends Toggle.
\* The "Open window" menu stays closed (its entries are drawn only while
\* it is open); the per-plugin menu-bar items follow.
editor_menu_bar(w, in) ==
    draw_window_menu_items(
        IF ~w.editor.always_active /\ in.toggle_clicked
        THEN LET now_active == ~w.editor.active
             IN  [w EXCEPT !.editor.active = now_active,
                           !.editor_events = Append(w.editor_events, Toggle(now_active))]
        ELSE w)

\* ------------------------------------------------------------- dock area
\* Variant of editor_window_context_menu: a plugin that has a floating
\* window gets no second one.
editor_window_context_menu_once(is, tab) ==
    IF tab # GameView /\ ~has_floating_window(is, tab)
    THEN LET r == next_floating_window_id(is)
         IN  [r[2] EXCEPT !.floating_windows =
                 Append(r[2].floating_windows, FloatingWindow(tab, r[1], NoneOpt, RectZero))]
    ELSE is

\* Variant of editor_window_context_menu: the id is issued before the kind
\* of the tab is looked at.
editor_window_context_menu_eager_id(is, tab) ==
    LET r == next_floating_window_id(is)
    IN  IF tab # GameView
        THEN [r[2] EXCEPT !.floating_windows =
                 Append(r[2].floating_windows, FloatingWindow(tab, r[1], NoneOpt, RectZero))]
        ELSE r[2]

\* Editor::editor_window_context_menu with "Pop out" clicked on `tab`.
editor_window_context_menu(is, tab) ==
    IF tab # GameView
    THEN LET r == next_floating_window_id(is)
         IN  [r[2] EXCEPT !.floating_windows =
                 Append(r[2].floating_windows, FloatingWindow(tab, r[1], NoneOpt, RectZero))]
    ELSE is

NoGesture == [kind |-> "none", pane |-> 0, tab |-> 0]

\* Whether some leaf of the tree shows the viewport tab.
GameViewShown(tree) ==
    \E n \in 1..Len(tree.panes) : ActiveTab(tree.panes[n]) = Some(GameView)

\* Variant of title: a tab whose plugin is not registered gets an empty
\* title.
title_or_empty(e, tab) ==
    IF tab = GameView THEN Some("Viewport")
    ELSE IF tab \in Registered(e) THEN Some(tab) ELSE Some("")

\* TabViewer::title: the plugin's name (NAME, here the type's own), or
\* nothing where `windows.get(&window_id).unwrap()` panics.
title(e, tab) ==
    IF tab = GameView THEN Some("Viewport")
    ELSE IF tab \in Registered(e) THEN Some(tab) ELSE NoneOpt

\* Editor::editor_window_inner: the plugin's content callback;
\* `windows.get_mut(&selected).unwrap()` panics for a plugin that is not
\* registered.
editor_window_inner(w, selected) ==
    IF selected \in Registered(w.editor) THEN Call(w, "ui", selected)
    ELSE [w EXCEPT !.panicked = TRUE]

\* The GameView arm of TabViewer::ui after the toolbar: the clip rectangle
\* is recorded as the viewport, the pointer position is extracted and every
\* plugin's viewport callback is drawn.
GameViewUi(w, in) ==
    CallEach([w EXCEPT !.editor = extract_viewport_pointer_pos(
                                      [w.editor EXCEPT !.viewport = in.clip_rect],
                                      in.pos, in.clip_rect)],
             "viewport_ui", Len(w.editor.windows))

\* TabViewer::ui for one tab.  The GameView tab draws every plugin's
\* viewport-toolbar callback and the viewport; a plugin's tab draws the
\* plugin's content.
TabViewerUi(w, tab, in) ==
    IF tab = GameView
    THEN GameViewUi(CallEach(w, "viewport_toolbar_ui", Len(w.editor.windows)), in)
    ELSE editor_window_inner(w, tab)

\* The content of a leaf's active tab, if it has one.
ShowLeaf(w, tab, in) ==
    IF w.panicked \/ ~IsSome(tab) THEN w ELSE TabViewerUi(w, tab[1], in)

\* The content of the active tab of the leaves 1..n of `tree`.
RECURSIVE ShowLeaves(_, _, _, _)
ShowLeaves(w, tree, n, in) ==
    IF n = 0 THEN w
    ELSE ShowLeaf(ShowLeaves(w, tree, n - 1, in), ActiveTab(tree.panes[n]), in)

\* DockArea::show(ctx, &mut TabViewer) on the detached tree: the tab bars
\* ask the title of every tab; then the user's gesture on a tab bar (click
\* a tab, pop a tab out from its context menu, close a tab), then the
\* content of each leaf's active tab; a closed tab is removed after the
\* content has been drawn.
DockAreaShow(w, tree, in) ==
    LET g == in.gesture
        titled == \A n \in 1..Len(tree.panes) : \A t \in 1..Len(tree.panes[n].tabs) :
                      IsSome(title(w.editor, tree.panes[n].tabs[t]))
        clicked == IF g.kind = "click" THEN DockClickTab(tree, g.pane, g.tab) ELSE tree
        is1 == IF g.kind = "popout"
               THEN editor_window_context_menu(w.internal_state, tree.panes[g.pane].tabs[g.tab])
               ELSE w.internal_state
        w1 == ShowLeaves([w EXCEPT !.internal_state = is1], clicked, Len(clicked.panes), in)
        shown == IF g.kind = "close" THEN DockCloseTab(clicked, g.pane, g.tab) ELSE clicked
    IN  IF ~titled THEN <<[w EXCEPT !.panicked = TRUE], tree>>
        ELSE <<w1, shown>>

\* The dock-area pass of editor_ui: the tree is swapped out of the layout
\* store for an empty DockState, shown, and put back; a panic of the show
\* leaves the empty one.
Reattach(w, tree) ==
    IF w.panicked THEN w ELSE [w EXCEPT !.internal_state.state = tree]

dock_area_pass(w, in) ==
    LET tree == w.internal_state.state
        detached == [w EXCEPT !.internal_state.state = DockStateNew(<<>>)]
        Put(r) == Reattach(r[1], r[2])
    IN  Put(DockAreaShow(detached, tree, in))

\* ------------------------------------------------------------- floating windows
\* The removals of editor_floating_windows: swap_remove of the closed
\* indices (1-based here), the highest first.
RECURSIVE RemoveClosed(_, _)
RemoveClosed(windows, closed) ==
    IF closed = {} THEN windows
    ELSE LET to_remove == CHOOSE i \in closed : \A j \in closed : j <= i
         IN  RemoveClosed(SwapRemove(windows, to_remove), closed \ {to_remove})

\* One window of the loop of editor_floating_windows:
\* `self.windows[&fl_window.window]` panics for a plugin that is not
\* registered, and the window hosts the plugin's content callback.
ShowWindow(w, fl_window) ==
    IF w.panicked THEN w ELSE editor_window_inner(w, fl_window.window)

\* The loop of editor_floating_windows over the windows 1..n of the
\* snapshot.
RECURSIVE ShowWindows(_, _, _)
ShowWindows(w, snapshot, n) ==
    IF n = 0 THEN w
    ELSE ShowWindow(ShowWindows(w, snapshot, n - 1), snapshot[n])

\* Variant of UpdateWindows: the closed set is not cleared.
UpdateWindowsSticky(w, snapshot, fin) ==
    LET updated == [i \in 1..Len(snapshot) |->
                        [snapshot[i] EXCEPT !.current_rect = fin.rects[i]]]
    IN  IF w.panicked THEN w
        ELSE [w EXCEPT !.internal_state.closed_floating_windows =
                           w.internal_state.closed_floating_windows \cup
                           {snapshot[i].window : i \in fin.closed},
                       !.internal_state.floating_windows = RemoveClosed(updated, fin.closed)]

\* Variant of UpdateWindows: the rectangles are copied back after the
\* removals.
UpdateWindowsLateRects(w, snapshot, fin) ==
    LET kept == RemoveClosed(snapshot, fin.closed)
    IN  IF w.panicked THEN w
        ELSE [w EXCEPT !.internal_state.closed_floating_windows =
                           {snapshot[i].window : i \in fin.closed},
                       !.internal_state.floating_windows =
                           [i \in 1..Len(kept) |->
                               [kept[i] EXCEPT !.current_rect = fin.rects[i]]]]

\* What editor_floating_windows writes to the layout store: the closed set
\* is the set of the plugins of the windows closed in this pass (it was
\* cleared before the loop), the rectangles rendered are copied from the
\* snapshot to the list by index, and the closed windows are removed.
UpdateWindows(w, snapshot, fin) ==
    LET rendered == [i \in 1..Len(snapshot) |->
                        [snapshot[i] EXCEPT !.current_rect = fin.rects[i]]]
        closed_types == {snapshot[i].window : i \in fin.closed}
        updated == [i \in 1..Len(snapshot) |->
                        [snapshot[i] EXCEPT !.current_rect = rendered[i].current_rect]]
    IN  IF w.panicked THEN w
        ELSE [w EXCEPT !.internal_state.closed_floating_windows = closed_types,
                       !.internal_state.floating_windows =
                           RemoveClosed(updated, fin.closed)]

\* Editor::editor_floating_windows: fin.rects[i] is the rectangle the i-th
\* window of the snapshot is rendered at, fin.closed the indices of the
\* windows whose close button the user activated.
editor_floating_windows(w, fin) ==
    IF w.panicked THEN w
    ELSE UpdateWindows(ShowWindows(w, w.internal_state.floating_windows,
                                   Len(w.internal_state.floating_windows)),
                       w.internal_state.floating_windows, fin)

\* ------------------------------------------------------------- pointer tracker
\* EditorPointerState::is_pointer_in_viewport.
is_pointer_in_viewport(pointer_state) == IsSome(pointer_state.viewport_pointer_pos)

\* Variant of setup_input_viewport_state: the floating windows are not
\* looked at.
setup_input_viewport_state_no_windows(e, in, is) ==
    LET pointer_pos == in.pos
        pointer_in_viewport == IsSome(pointer_pos) /\ is_in_viewport(e, pointer_pos[1])
        discarded == IF ~pointer_in_viewport
                     THEN [e EXCEPT !.pointer_state.viewport_pointer_pos = NoneOpt]
                     ELSE e
    IN  IF in.primary_pressed
        THEN [discarded EXCEPT !.pointer_state.press_start_in_viewport = pointer_in_viewport]
        ELSE IF ~in.primary_down
        THEN [discarded EXCEPT !.pointer_state.press_start_in_viewport = FALSE]
        ELSE discarded

\* Editor::setup_input_viewport_state.
setup_input_viewport_state(e, in, is) ==
    LET pointer_pos == in.pos
        pointer_in_viewport == IsSome(pointer_pos) /\ is_in_viewport(e, pointer_pos[1])
        windows == is.floating_windows
        pointer_inside_floating_window ==
            IsSome(pointer_pos) /\
            \E i \in 1..Len(windows) : Contains(windows[i].current_rect, pointer_pos[1])
        discarded == IF ~pointer_in_viewport \/ pointer_inside_floating_window
                     THEN [e EXCEPT !.pointer_state.viewport_pointer_pos = NoneOpt]
                     ELSE e
    IN  IF in.primary_pressed
        THEN [discarded EXCEPT !.pointer_state.press_start_in_viewport =
                                  pointer_in_viewport /\ ~pointer_inside_floating_window]
        ELSE IF ~in.primary_down
        THEN [discarded EXCEPT !.pointer_state.press_start_in_viewport = FALSE]
        ELSE discarded

\* Editor::setup_input_state.
setup_input_state(e, in, is) ==
    setup_input_viewport_state([e EXCEPT !.pointer_state.press_active = in.primary_down],
                               in, is)

\* Variant of interaction_owner: a held press is resolved again in every
\* redraw.
interaction_owner_refresh(e, is_pressed) ==
    IF ~is_pressed THEN OwnerNone
    ELSE IF e.pointer_used THEN OwnerEditor ELSE OwnerViewport

\* The interaction-owner match at the end of editor_ui.
interaction_owner(e, is_pressed) ==
    IF ~is_pressed THEN OwnerNone
    ELSE IF e.active_editor_interaction = OwnerNone
    THEN (IF e.pointer_used THEN OwnerEditor ELSE OwnerViewport)
    ELSE e.active_editor_interaction

\* ------------------------------------------------------------- redraw
\* `self.pointer_used = pointer_pos.map_or(false, |pos| !self.is_in_viewport(pos))`.
set_pointer_used(w, in) ==
    IF w.panicked THEN w
    ELSE [w EXCEPT !.editor.pointer_used =
                       IsSome(in.pos) /\ ~is_in_viewport(w.editor, in.pos[1])]

\* Variant of dock_area: the dock area is shown by an inactive editor too.
dock_area_always(w, in) == set_pointer_used(dock_area_pass(w, in), in)

\* editor_ui after the menu bar and before the floating-window pass: an
\* active editor shows the dock area and reads the pointer.
dock_area(w, in) ==
    IF ~w.editor.active THEN w
    ELSE set_pointer_used(dock_area_pass(w, in), in)

\* The part of editor_ui before the floating-window pass.
editor_ui_head(w, in) == dock_area(editor_menu_bar(w, in), in)

\* The end of editor_ui of an active editor, on the editor: the pointer
\* tracker, listening_for_text and the interaction owner.
finish_input(e, in) ==
    [e EXCEPT !.listening_for_text = in.wants_keyboard_input,
              !.active_editor_interaction = interaction_owner(e, in.is_pressed)]

\* The part of editor_ui after the floating-window pass.
editor_ui_tail(w, in) ==
    IF w.panicked THEN w
    ELSE IF ~w.editor.active
    THEN [w EXCEPT !.editor.pointer_used = in.wants_pointer_input]
    ELSE [w EXCEPT !.editor =
             finish_input(setup_input_state(w.editor, in, w.internal_state), in)]

\* Editor::editor_ui; a panic leaves the world as it is where it happens.
editor_ui(w, in, fin) ==
    editor_ui_tail(editor_floating_windows(editor_ui_head(w, in), fin), in)

\* Variant of system: without the context the menu bar is still drawn.
system_menu_bar(w, found, in, fin) ==
    IF ~found THEN editor_menu_bar(w, in) ELSE editor_ui(w, in, fin)

\* Editor::system: nothing is done when the EguiContext of the target
\* window is not found, editor_ui runs when it is.
system(w, found, in, fin) ==
    IF ~found THEN w ELSE editor_ui(w, in, fin)

\* ------------------------------------------------------------- environment
\* The resources a step starts from, no callback invoked yet.
World == [editor |-> editor, internal_state |-> internal_state,
          editor_events |-> editor_events, calls |-> <<>>, panicked |-> FALSE,
          script |-> NoScript]

\* The gestures the user can make on the tab bars of `tree`.
Gestures(tree, kinds) ==
    {NoGesture} \cup
    {g \in [kind : kinds, pane : 1..MaxPanes, tab : 1..MaxTabs] :
        /\ g.pane <= Len(tree.panes)
        /\ g.tab <= Len(tree.panes[g.pane].tabs)}

\* The raw input of one frame under the environment `env` (toggle_clicked
\* is the user clicking where the play/pause button is drawn; the
\* always-active editor draws none).
FrameInputs(w, env) ==
    {[toggle_clicked |-> tc, gesture |-> g, clip_rect |-> cr, pos |-> p,
      is_pressed |-> b[1], primary_pressed |-> b[2], primary_down |-> b[3],
      wants_pointer_input |-> wp, wants_keyboard_input |-> wk] :
        tc \in env.toggle,
        g \in Gestures(w.internal_state.state, env.gestures),
        cr \in env.clip_rects, p \in env.positions, b \in env.buttons,
        wp \in env.wants_pointer, wk \in env.wants_keyboard}

\* A click is reported in the frame that releases the button over the
\* widget: the pointer has a position and no press is in progress.
ClickFrame(in) ==
    IsSome(in.pos) /\ ~in.is_pressed /\ ~in.primary_down

\* The inputs of FrameInputs a frame can bring, one for each difference the
\* redraw reads: a click on the play/pause button or on a tab bar comes in
\* a click frame, an inactive redraw shows no dock area, an active one
\* does not ask wants_pointer_input.
ReadInputs(w, env) ==
    {in \in FrameInputs(w, env) :
        /\ (in.toggle_clicked \/ in.gesture # NoGesture) => ClickFrame(in)
        /\ ~(in.toggle_clicked /\ in.gesture # NoGesture)
        /\ IF editor_menu_bar(w, in).editor.active
           THEN in.wants_pointer_input = FALSE
           ELSE in.gesture = NoGesture}

\* What the floating-window pass meets for a list of n windows: the
\* rectangle each is rendered at and, in a click frame, the windows whose
\* close button is activated.
FloatInputs(n, in, env) ==
    {[rects |-> r, closed |-> c] :
        r \in [1..n -> env.float_rects],
        c \in IF env.close /\ ClickFrame(in) /\ ~in.toggle_clicked /\ in.gesture = NoGesture
              THEN SUBSET (1..n) ELSE {{}}}

\* The input of a redraw as the properties read it; `popped` is what the
\* dock-area pass appended to the floating-window list, as the floating
\* pass finds it.
Observed(w, in, fin) ==
    LET after == editor_ui_head(w, in).internal_state.floating_windows
    IN  [pos |-> in.pos, is_pressed |-> in.is_pressed,
         primary_pressed |-> in.primary_pressed, primary_down |-> in.primary_down,
         toggle_clicked |-> in.toggle_clicked, gesture |-> in.gesture,
         closed_ids |-> {after[i].id : i \in fin.closed},
         rects |-> {<<after[i].id, fin.rects[i]>> : i \in 1..Len(after)},
         popped |-> SubSeq(after, Len(w.internal_state.floating_windows) + 1, Len(after)),
         wants_pointer_input |-> in.wants_pointer_input, window |-> NoneOpt,
         script |-> w.script]

NoInput ==
    [pos |-> NoneOpt, is_pressed |-> FALSE, primary_pressed |-> FALSE,
     primary_down |-> FALSE, toggle_clicked |-> FALSE, gesture |-> NoGesture,
     closed_ids |-> {}, rects |-> {}, popped |-> <<>>, wants_pointer_input |-> FALSE,
     window |-> NoneOpt, script |-> NoScript]

\* The frame Editor::system does not look at when the context is missing.
IdleFrame ==
    [toggle_clicked |-> FALSE, gesture |-> NoGesture, clip_rect |-> RectZero,
     pos |-> NoneOpt, is_pressed |-> FALSE, primary_pressed |-> FALSE,
     primary_down |-> FALSE, wants_pointer_input |-> FALSE,
     wants_keyboard_input |-> FALSE]

IdleFloat(n) == [rects |-> [i \in 1..n |-> RectZero], closed |-> {}]

\* ------------------------------------------------------------- actions
\* Editor::system with the target window's EguiContext found: one redraw,
\* in which the plugins' callbacks do what one of env.scripts says.
SystemRedraw(env) ==
    /\ ~Panicked
    /\ Len(editor_events) < MaxEvents
    /\ \E script \in env.scripts, in \in ReadInputs(World, env) :
         LET start == [World EXCEPT !.script = script]
             head == editor_ui_head(start, in)
         IN  /\ in.gesture.kind = "popout" =>
                  internal_state.next_floating_window_id < MaxId
             /\ script # NoScript => DockTabCount(internal_state.state) < MaxTabs
             /\ \E fin \in FloatInputs(Len(head.internal_state.floating_windows), in, env) :
                  LET w == system(start, TRUE, in, fin)
                  IN  /\ editor' = w.editor
                      /\ internal_state' = w.internal_state
                      /\ editor_events' = w.editor_events
                      /\ calls' = w.calls
                      /\ op' = IF w.panicked THEN "redraw_panic" ELSE "redraw"
                      /\ input' = Observed(start, in, fin)

\* Editor::system when the EguiContext of the window is not found.
SystemSkip ==
    /\ ~Panicked
    /\ LET w == system(World, FALSE, IdleFrame,
                       IdleFloat(Len(internal_state.floating_windows)))
       IN  /\ editor' = w.editor
           /\ internal_state' = w.internal_state
           /\ editor_events' = w.editor_events
           /\ calls' = w.calls
    /\ op' = "skip"
    /\ UNCHANGED input

\* Editor::set_active called by the application.
SetActive ==
    \E active \in BOOLEAN :
        /\ ~Panicked
        /\ editor' = set_active(editor, active)
        /\ op' = "set_active"
        /\ calls' = <<>>
        /\ UNCHANGED <<internal_state, editor_events, input>>

\* EditorInternalState::push_to_focused_leaf::<W>() called by the application.
PushToFocusedLeaf(types) ==
    \E W \in types :
        /\ ~Panicked
        /\ DockTabCount(internal_state.state) < MaxTabs
        /\ internal_state' = push_to_focused_leaf(internal_state, W)
        /\ op' = "push_to_focused_leaf"
        /\ input' = [NoInput EXCEPT !.window = Some(W)]
        /\ calls' = <<>>
        /\ UNCHANGED <<editor, editor_events>>

\* EditorInternalState::split::<W>(parent, ..) called by the application
\* on a leaf of the tree.
Split(types) ==
    \E W \in types :
        /\ ~Panicked
        /\ Len(internal_state.state.panes) \in 1..(MaxPanes - 1)
        /\ DockTabCount(internal_state.state) < MaxTabs
        /\ internal_state' = split(internal_state, W)
        /\ op' = "split"
        /\ input' = [NoInput EXCEPT !.window = Some(W)]
        /\ calls' = <<>>
        /\ UNCHANGED <<editor, editor_events>>

\* EditorInternalState::split_many(parent, .., windows) called by the
\* application with two plugin identities.
SplitMany(types) ==
    \E W1 \in types, W2 \in types :
        /\ ~Panicked
        /\ Len(internal_state.state.panes) \in 1..(MaxPanes - 1)
        /\ DockTabCount(internal_state.state) + 1 < MaxTabs
        /\ internal_state' = split_many(internal_state, <<W1, W2>>)
        /\ op' = "split_many"
        /\ input' = [NoInput EXCEPT !.window = Some(W1)]
        /\ calls' = <<>>
        /\ UNCHANGED <<editor, editor_events>>

\* The engine's event update drops the events that have been read.
EventsUpdate ==
    /\ ~Panicked
    /\ editor_events # <<>>
    /\ editor_events' = <<>>
    /\ op' = "events_update"
    /\ calls' = <<>>
    /\ UNCHANGED <<editor, internal_state, input>>

\* Editor::add_window::<W>() called by the application.
AddWindow(types) ==
    \E W \in types :
        /\ ~Panicked
        /\ editor' = add_window(editor, W)
        /\ op' = IF already_inserted(editor, W) THEN "add_window_panic" ELSE "add_window"
        /\ input' = [NoInput EXCEPT !.window = Some(W)]
        /\ calls' = <<>>
        /\ UNCHANGED <<internal_state, editor_events>>

\* CameraWindow::set_active_camera(camera, world, editor) called by the
\* application, for a plugin type registered or not.
SetActiveCamera(types) ==
    \E W \in types, camera \in Cameras :
        /\ ~Panicked
        /\ editor' = set_active_camera(editor, W, camera)
        /\ op' = "set_active_camera"
        /\ input' = [NoInput EXCEPT !.window = Some(W)]
        /\ calls' = <<>>
        /\ UNCHANGED <<internal_state, editor_events>>

\* ------------------------------------------------------------- specifications
\* The session: the editor of either kind, its plugins registered.
Init ==
    /\ \E always_active \in BOOLEAN :
         editor = add_window(add_window(EditorNew(always_active), "A"), "B")
    /\ internal_state = EditorInternalStateDefault
    /\ editor_events = <<>>
    /\ op = "init"
    /\ input = NoInput
    /\ calls = <<>>

Positions == {NoneOpt} \cup {Some(c) : c \in Coords}
AllButtons == {<<a, b, c>> : a \in BOOLEAN, b \in BOOLEAN, c \in BOOLEAN}

\* One pointer button in use: <<is_pressed, primary_pressed, primary_down>>
\* with the press state that of the primary button.
SingleButton == {b \in AllButtons : b[1] = b[3]}

\* Pointer and activation over the default dock tree: the pointer absent,
\* outside the viewport rectangle or inside it.
PointerEnv ==
    [toggle |-> BOOLEAN, gestures |-> {},
     clip_rects |-> {<<1, MaxCoord>>},
     positions |-> {NoneOpt, Some(0), Some(MaxCoord)},
     buttons |-> SingleButton, wants_pointer |-> BOOLEAN, wants_keyboard |-> {TRUE},
     float_rects |-> {RectZero}, close |-> FALSE,
     scripts |-> {NoScript}]

Next ==
    \/ SystemRedraw(PointerEnv)
    \/ SystemSkip
    \/ SetActive
    \/ EventsUpdate

Spec == Init /\ [][Next]_vars

\* Floating windows: plugin tabs are added and popped out, the windows are
\* rendered and closed; the pointer clicks on the editor's chrome.
FloatEnv ==
    [toggle |-> {FALSE}, gestures |-> {"popout"},
     clip_rects |-> {<<1, MaxCoord>>},
     positions |-> {Some(0)},
     buttons |-> {<<FALSE, FALSE, FALSE>>},
     wants_pointer |-> {FALSE}, wants_keyboard |-> {TRUE},
     float_rects |-> {<<0, 1>>}, close |-> TRUE,
     scripts |-> {NoScript}]

NextFloat ==
    \/ SystemRedraw(FloatEnv)
    \/ SystemSkip
    \/ SetActive
    \/ PushToFocusedLeaf(Plugins)

SpecFloat == Init /\ [][NextFloat]_vars

\* Presses over floating windows: the tab of plugin A is added and popped
\* out, the window is rendered over the viewport's left edge, and the
\* pointer is pressed, held and released anywhere.
PressEnv ==
    [toggle |-> {FALSE}, gestures |-> {"popout"},
     clip_rects |-> {<<1, MaxCoord>>},
     positions |-> Positions,
     buttons |-> SingleButton,
     wants_pointer |-> {FALSE}, wants_keyboard |-> {TRUE},
     float_rects |-> {<<0, 1>>}, close |-> FALSE,
     scripts |-> {NoScript}]

NextPress ==
    \/ SystemRedraw(PressEnv)
    \/ SetActive
    \/ PushToFocusedLeaf({"A"})

SpecPress == Init /\ [][NextPress]_vars

\* The dock tree: tabs are added by the three layout calls, the user clicks
\* and closes tabs; the pointer clicks on the tab bars and no window floats.
DockEnv ==
    [toggle |-> {FALSE}, gestures |-> {"click", "close"},
     clip_rects |-> {<<1, MaxCoord>>},
     positions |-> {Some(0)},
     buttons |-> {<<FALSE, FALSE, FALSE>>},
     wants_pointer |-> {FALSE}, wants_keyboard |-> {TRUE},
     float_rects |-> {RectZero}, close |-> FALSE,
     scripts |-> {NoScript}]

NextDock ==
    \/ SystemRedraw(DockEnv)
    \/ SetActive
    \/ PushToFocusedLeaf(Plugins)
    \/ Split(Plugins)
    \/ SplitMany(Plugins)

SpecDock == Init /\ [][NextDock]_vars

\* The pointer tracker: the application has registered plugin A and added
\* its tab at start-up; the user pops the tab out, brings the viewport tab
\* or the plugin's tab to the front, and moves, presses, holds and releases
\* the pointer anywhere, over the floating windows too.
InitTracker ==
    /\ \E always_active \in BOOLEAN : editor = add_window(EditorNew(always_active), "A")
    /\ internal_state = push_to_focused_leaf(EditorInternalStateDefault, "A")
    /\ editor_events = <<>>
    /\ op = "init"
    /\ input = NoInput
    /\ calls = <<>>

TrackerEnv ==
    [toggle |-> {FALSE}, gestures |-> {"popout", "click"},
     clip_rects |-> {<<1, MaxCoord>>},
     positions |-> Positions,
     buttons |-> SingleButton,
     wants_pointer |-> {FALSE}, wants_keyboard |-> {TRUE},
     float_rects |-> {<<0, 1>>}, close |-> FALSE,
     scripts |-> {NoScript}]

NextTracker ==
    \/ SystemRedraw(TrackerEnv)
    \/ SetActive

SpecTracker == InitTracker /\ [][NextTracker]_vars

\* The floating-window pass: the tab of plugin A, added at start-up, is
\* popped out; the windows are rendered at one of two rectangles and
\* closed, by an active and by an inactive editor, which the application
\* or the play/pause button pauses and resumes; in some frames the UI
\* context of the window is missing.
PassEnv ==
    [toggle |-> BOOLEAN, gestures |-> {"popout"},
     clip_rects |-> {<<1, MaxCoord>>},
     positions |-> {Some(0)},
     buttons |-> {<<FALSE, FALSE, FALSE>>},
     wants_pointer |-> BOOLEAN, wants_keyboard |-> {TRUE},
     float_rects |-> {<<0, 1>>, <<1, MaxCoord>>}, close |-> TRUE,
     scripts |-> {NoScript}]

NextPass ==
    \/ SystemRedraw(PassEnv)
    \/ SystemSkip
    \/ SetActive
    \/ EventsUpdate

SpecPass == InitTracker /\ [][NextPass]_vars

\* Plugins that write to the layout store: plugin A, registered and docked
\* at start-up, adds one more tab of its own from one of its callbacks; the
\* user brings the viewport tab or the plugin's tab to the front and pops
\* the plugin's tab out, the application pauses and resumes the editor.
PluginEnv ==
    [toggle |-> {FALSE}, gestures |-> {"popout", "click"},
     clip_rects |-> {<<1, MaxCoord>>},
     positions |-> {Some(0)},
     buttons |-> {<<FALSE, FALSE, FALSE>>},
     wants_pointer |-> {FALSE}, wants_keyboard |-> {TRUE},
     float_rects |-> {<<0, 1>>}, close |-> FALSE,
     scripts |-> {NoScript} \cup
                 {[callback |-> c, plugin |-> "A", window |-> "A"] : c \in Callbacks}]

NextPlugin ==
    \/ SystemRedraw(PluginEnv)
    \/ SetActive

SpecPlugin == InitTracker /\ [][NextPlugin]_vars

\* The registry: an editor with no plugin yet; the application registers
\* plugin types, also one already registered, and writes plugin states; the
\* redraws draw the menu bar.
InitRegistry ==
    /\ \E always_active \in BOOLEAN : editor = EditorNew(always_active)
    /\ internal_state = EditorInternalStateDefault
    /\ editor_events = <<>>
    /\ op = "init"
    /\ input = NoInput
    /\ calls = <<>>

MenuEnv ==
    [toggle |-> {FALSE}, gestures |-> {},
     clip_rects |-> {<<1, MaxCoord>>},
     positions |-> {NoneOpt},
     buttons |-> {<<FALSE, FALSE, FALSE>>},
     wants_pointer |-> {FALSE}, wants_keyboard |-> {TRUE},
     float_rects |-> {RectZero}, close |-> FALSE,
     scripts |-> {NoScript}]

NextRegistry ==
    \/ AddWindow(Types)
    \/ SetActiveCamera(Types)
    \/ SystemRedraw(MenuEnv)

SpecRegistry == InitRegistry /\ [][NextRegistry]_vars

\* Tabs of plugins registered or not: the application registers plugin A,
\* at any time, also twice, and adds tabs by the three layout calls for A
\* and for B, which is never registered; the user pops tabs out and closes
\* floating windows.
LayoutEnv ==
    [toggle |-> {FALSE}, gestures |-> {"popout"},
     clip_rects |-> {<<1, MaxCoord>>},
     positions |-> {Some(0)},
     buttons |-> {<<FALSE, FALSE, FALSE>>},
     wants_pointer |-> {FALSE}, wants_keyboard |-> {TRUE},
     float_rects |-> {<<0, 1>>}, close |-> TRUE,
     scripts |-> {NoScript}]

NextLayout ==
    \/ AddWindow({"A"})
    \/ PushToFocusedLeaf(Plugins)
    \/ Split(Plugins)
    \/ SplitMany(Plugins)
    \/ SetActive
    \/ SystemRedraw(LayoutEnv)

SpecLayout == InitRegistry /\ [][NextLayout]_vars

\* ------------------------------------------------------------- properties
Owner == editor.active_editor_interaction

\* C1: after every redraw in which the pointer is not pressed the
\* interaction owner is None, the editor active or inactive in that redraw.
C1_ReleaseResetsOwner ==
    (op = "redraw" /\ ~input.is_pressed) => Owner = OwnerNone

\* C2: while the pointer stays pressed a redraw keeps the owner a press has
\* set; the owner leaves Viewport or Editor only in a redraw whose pointer
\* is not pressed.
C2_OwnerHeld ==
    [][(Owner # OwnerNone /\ Owner' # Owner) =>
          (op' = "redraw" /\ ~input'.is_pressed)]_vars

\* A drag that began on the editor's chrome is inside the viewport
\* rectangle, the editor still the owner.
C2_Witness ==
    /\ op = "redraw" /\ editor.active /\ input.is_pressed
    /\ Owner = OwnerEditor
    /\ IsSome(input.pos) /\ is_in_viewport(editor, input.pos[1])

\* C9: an always-active editor is active in every state.
C9_AlwaysActiveStaysActive ==
    editor.always_active => editor.active

\* C10: a redraw flips `active` and sends exactly one Toggle carrying the
\* new value when the play/pause button of a not-always-active editor is
\* clicked; every other redraw leaves `active` and the event queue
\* unchanged; only Toggle events are ever in the queue.
C10_ToggleEvent ==
    [][op' = "redraw" =>
          /\ IF input'.toggle_clicked /\ ~editor.always_active
             THEN /\ editor'.active = ~editor.active
                  /\ editor_events' = Append(editor_events, Toggle(editor'.active))
             ELSE /\ editor'.active = editor.active
                  /\ editor_events' = editor_events
          /\ \A i \in 1..Len(editor_events') : editor_events'[i].event = "Toggle"]_vars

\* The button was clicked in the last redraw and paused the editor.
C10_Witness ==
    /\ op = "redraw" /\ input.toggle_clicked /\ ~editor.always_active
    /\ ~editor.active
    /\ editor_events = <<Toggle(FALSE)>>

\* The pointer is over editor UI: outside the viewport rectangle or inside
\* the rectangle of a floating window.
OverEditorUi ==
    /\ IsSome(input.pos)
    /\ \/ ~is_in_viewport(editor, input.pos[1])
       \/ \E i \in 1..Len(internal_state.floating_windows) :
             Contains(internal_state.floating_windows[i].current_rect, input.pos[1])

\* C3: an active redraw that meets a pressed pointer with no owner makes the
\* owner Editor when the pointer is over editor UI and Viewport otherwise.
C3_PressRule ==
    [][(op' = "redraw" /\ editor'.active /\ Owner = OwnerNone /\ input'.is_pressed) =>
          Owner' = IF OverEditorUi' THEN OwnerEditor ELSE OwnerViewport]_vars

\* C4 as claimed: add_tab(P) on a tree with a focused pane leaves P's tab
\* in the focused pane as its active tab.
C4_AddTabActivatesNew ==
    [][(op' = "push_to_focused_leaf" /\ IsSome(FocusedLeaf(internal_state.state))) =>
          /\ IsSome(FocusedLeaf(internal_state'.state))
          /\ LET p == internal_state'.state.panes[FocusedLeaf(internal_state'.state)[1]]
                 tab == CustomWindow(input'.window[1])
             IN  tab \in SeqToSet(p.tabs) /\ ActiveTab(p) = Some(tab)]_vars

\* C4: add_tab(P) on a tree with a focused pane appends P's tab to that
\* pane, which stays focused, and makes the pane's first tab (index 0) the
\* active one; the other panes are unchanged.
C4_AddTabKeepsFirstActive ==
    [][(op' = "push_to_focused_leaf" /\ IsSome(FocusedLeaf(internal_state.state))) =>
          LET n == FocusedLeaf(internal_state.state)[1]
              before == internal_state.state.panes
              after == internal_state'.state.panes
          IN  /\ FocusedLeaf(internal_state'.state) = Some(n)
              /\ Len(after) = Len(before)
              /\ after[n].tabs = Append(before[n].tabs, CustomWindow(input'.window[1]))
              /\ after[n].active = 0
              /\ \A m \in 1..Len(before) : m # n => after[m] = before[m]]_vars

\* The focused pane shows the viewport tab, its first, after a plugin's tab
\* was added behind it.
C4_Witness ==
    /\ op = "push_to_focused_leaf"
    /\ IsSome(FocusedLeaf(internal_state.state))
    /\ LET p == internal_state.state.panes[FocusedLeaf(internal_state.state)[1]]
       IN  /\ Len(p.tabs) >= 2
           /\ p.tabs[1] = GameView
           /\ p.tabs[Len(p.tabs)] = CustomWindow(input.window[1])
           /\ ActiveTab(p) = Some(GameView)

\* The floating windows a redraw's floating-window pass meets, as <<plugin,
\* id>>: the list before the redraw and the window a pop-out of this
\* redraw has added.
DuringPass ==
    LET g == input'.gesture
        tab == internal_state.state.panes[g.pane].tabs[g.tab]
        before == internal_state.floating_windows
    IN  {<<before[i].window, before[i].id>> : i \in 1..Len(before)} \cup
        (IF g.kind = "popout" /\ tab # GameView
         THEN {<<tab, internal_state.next_floating_window_id>>}
         ELSE {})

ClosedDuringPass == {x \in DuringPass : x[2] \in input'.closed_ids}

\* C5 as claimed: after every frame, a redraw or a frame whose pass is
\* skipped, the closed set is the set of the plugins whose floating window
\* was closed in that frame.
C5_ClosedSetPerFrame ==
    [][/\ op' = "redraw" =>
            internal_state'.closed_floating_windows = {x[1] : x \in ClosedDuringPass}
       /\ op' = "skip" => internal_state'.closed_floating_windows = {}]_vars

\* C5: after every redraw, of an active or an inactive editor, the closed
\* set is the set of the plugins whose floating window was closed in that
\* redraw; a frame whose pass is skipped leaves the closed set as it was.
C5_ClosedSetPerRedraw ==
    [][/\ op' = "redraw" =>
            internal_state'.closed_floating_windows = {x[1] : x \in ClosedDuringPass}
       /\ op' # "redraw" =>
            internal_state'.closed_floating_windows = internal_state.closed_floating_windows]_vars

\* The window of A was closed in the last redraw, that of B stays open.
C5_Witness ==
    /\ op = "redraw" /\ input.closed_ids # {}
    /\ closed_floating_window(internal_state, "A")
    /\ ~closed_floating_window(internal_state, "B")
    /\ has_floating_window(internal_state, "B")

\* C6 as claimed: after a redraw in which a floating window of P was
\* closed, has_floating_window::<P>() is false.
C6_ClosedMeansNotFloating ==
    op = "redraw" =>
        \A P \in internal_state.closed_floating_windows :
            ~has_floating_window(internal_state, P)

\* C6: after a redraw has_floating_window::<P>() is true exactly when a
\* floating window of P met by the pass was not closed in it; closing a
\* window of P makes it false unless another window of P stays open.
C6_FloatingIffOpenEntry ==
    [][op' = "redraw" =>
          \A P \in Plugins :
              has_floating_window(internal_state', P) <=>
                  \E x \in DuringPass \ ClosedDuringPass : x[1] = P]_vars

\* The only floating window of A was closed in the last redraw while the
\* window of B stays open.
C6_Witness ==
    /\ op = "redraw"
    /\ closed_floating_window(internal_state, "A")
    /\ ~has_floating_window(internal_state, "A")
    /\ has_floating_window(internal_state, "B")

EntriesOf(is, P) ==
    {i \in 1..Len(is.floating_windows) : is.floating_windows[i].window = P}

\* C7 as claimed: the floating-window list holds at most one entry for each
\* plugin.
C7_OneFloatingPerPlugin ==
    \A P \in Plugins : Cardinality(EntriesOf(internal_state, P)) <= 1

\* C7: every pop-out of a plugin's tab adds one entry for the plugin and
\* every close removes one: after a redraw the plugin has the entries it
\* had, plus one for a pop-out of its tab, minus its windows closed; a
\* second pop-out of A with its first window open leaves two entries.
C7_OneEntryPerPopOut ==
    [][IF op' = "redraw"
       THEN \A P \in Plugins :
                Cardinality(EntriesOf(internal_state', P)) =
                    Cardinality({x \in DuringPass \ ClosedDuringPass : x[1] = P})
       ELSE internal_state'.floating_windows = internal_state.floating_windows]_vars

\* Plugin A was popped out twice and both windows are open.
C7_Witness ==
    /\ Cardinality(EntriesOf(internal_state, "A")) = 2
    /\ has_floating_window(internal_state, "A")
    /\ internal_state.floating_windows[1].id # internal_state.floating_windows[2].id

FloatingIds(is) == {is.floating_windows[i].id : i \in 1..Len(is.floating_windows)}

\* C8: the id counter never decreases, every entry of the floating-window
\* list has an id below the counter, an entry new to the list has an id
\* that was not below the counter before, and the ids of the list are
\* pairwise distinct.
C8_FreshIds ==
    [][/\ internal_state'.next_floating_window_id >= internal_state.next_floating_window_id
       /\ \A id \in FloatingIds(internal_state') :
            /\ id < internal_state'.next_floating_window_id
            /\ id \notin FloatingIds(internal_state) =>
                  id >= internal_state.next_floating_window_id
       /\ Cardinality(FloatingIds(internal_state')) = Len(internal_state'.floating_windows)]_vars

\* The window with id 0 was closed and the next pop-out got id 1.
C8_Witness ==
    /\ Len(internal_state.floating_windows) = 1
    /\ internal_state.floating_windows[1].id = 1
    /\ internal_state.next_floating_window_id = 2

\* The plugin types of a registry, in registration order.
RegistrationOrder(e) == [i \in 1..Len(e.windows) |-> e.windows[i].type_id]

\* C11: add_window::<P>() for a plugin P already registered panics; the
\* registry then holds the registrations it held, in the same order, with
\* exactly one for P, and every plugin's state is the one it was.
C11_DuplicateRegistrationPanics ==
    [][(op' \in {"add_window", "add_window_panic"} /\
            input'.window[1] \in Registered(editor)) =>
          /\ op' = "add_window_panic"
          /\ RegistrationOrder(editor') = RegistrationOrder(editor)
          /\ Cardinality({i \in 1..Len(editor'.windows) :
                             editor'.windows[i].type_id = input'.window[1]}) = 1
          /\ editor'.window_states = editor.window_states]_vars

\* The first of two registered plugins, its state written by a caller, was
\* registered again.
C11_Witness ==
    /\ op = "add_window_panic"
    /\ Len(editor.windows) >= 2
    /\ editor.windows[1].type_id = input.window[1]
    /\ window_state(editor, input.window[1]) = Some("pan_orbit")

\* C12: window_state::<P>() returns a value exactly for the registered
\* plugins (the registry and the state map have the same keys); right
\* after add_window::<P>() has registered P it returns the default state;
\* asking for the state of a plugin never registered gives nothing and
\* changes nothing.
C12_StateIffRegistered ==
    [][/\ DOMAIN editor'.window_states = Registered(editor')
       /\ \A P \in Types : IsSome(window_state(editor', P)) <=> P \in Registered(editor')
       /\ op' = "add_window" => window_state(editor', input'.window[1]) = Some("default")
       /\ (op' = "set_active_camera" /\ input'.window[1] \notin Registered(editor)) =>
             /\ window_state(editor, input'.window[1]) = NoneOpt
             /\ UNCHANGED <<editor, internal_state, editor_events>>]_vars

\* A plugin was registered next to one whose state a caller has written,
\* and a third type is not registered.
C12_Witness ==
    /\ op = "add_window"
    /\ window_state(editor, input.window[1]) = Some("default")
    /\ \E P \in Registered(editor) : window_state(editor, P) = Some("pan_orbit")
    /\ \E P \in Types : P \notin Registered(editor) /\ window_state(editor, P) = NoneOpt

\* The plugins whose menu-bar callback a step invoked, in the order of the
\* invocations.
MenuBarCalls(log) ==
    LET IsMenuBarCall(c) == c[1] = "menu_bar_ui"
        menu == SelectSeq(log, IsMenuBarCall)
    IN  [i \in 1..Len(menu) |-> menu[i][2]]

\* The registration of plugin W: its index and its data.
RegistrationIndex(e, W) == CHOOSE i \in 1..Len(e.windows) : e.windows[i].type_id = W

\* C13: every redraw invokes the menu-bar callback of each registered
\* plugin exactly once, in non-decreasing menu_bar_order, plugins of equal
\* order in registration order.
C13_MenuBarStableOrder ==
    [][op' = "redraw" =>
          LET drawn == MenuBarCalls(calls')
              Rank(W) == editor'.windows[RegistrationIndex(editor', W)].menu_bar_order
          IN  /\ Len(drawn) = Len(editor'.windows)
              /\ SeqToSet(drawn) = Registered(editor')
              /\ \A i, j \in 1..Len(drawn) : i < j =>
                    \/ Rank(drawn[i]) < Rank(drawn[j])
                    \/ /\ Rank(drawn[i]) = Rank(drawn[j])
                       /\ RegistrationIndex(editor', drawn[i]) <
                              RegistrationIndex(editor', drawn[j])]_vars

\* A (order 10) was registered before C and B (order 5 both): the menu bar
\* draws C, B, A.
C13_Witness ==
    /\ op = "redraw"
    /\ RegistrationOrder(editor) = <<"A", "C", "B">>
    /\ MenuBarCalls(calls) = <<"C", "B", "A">>

\* The pointer of the last redraw is inside the rectangle of a floating
\* window of the list.
OverFloatingWindow ==
    /\ IsSome(input.pos)
    /\ \E i \in 1..Len(internal_state.floating_windows) :
          Contains(internal_state.floating_windows[i].current_rect, input.pos[1])

\* C14: after every active redraw viewport_pointer_pos is present only if
\* the cursor has a position, inside the viewport rectangle and inside the
\* rectangle of no floating window of the list; it is absent whenever the
\* pointer is inside a floating window's rectangle.
C14_ViewportPosNotOverWindows ==
    (op = "redraw" /\ editor.active) =>
        /\ is_pointer_in_viewport(editor.pointer_state) =>
              /\ IsSome(input.pos)
              /\ is_in_viewport(editor, input.pos[1])
              /\ ~OverFloatingWindow
        /\ OverFloatingWindow => ~is_pointer_in_viewport(editor.pointer_state)

\* The pointer is inside the viewport rectangle and over a floating window:
\* no viewport position is reported.
C14_Witness ==
    /\ op = "redraw" /\ editor.active
    /\ GameViewShown(internal_state.state)
    /\ IsSome(input.pos) /\ is_in_viewport(editor, input.pos[1])
    /\ OverFloatingWindow
    /\ ~is_pointer_in_viewport(editor.pointer_state)

\* C15: in every state the plugin of every entry of the floating-window
\* list is a key of the registry, whatever types the tabs of the dock tree
\* were added for.
C15_FloatingWindowsRegistered ==
    \A i \in 1..Len(internal_state.floating_windows) :
        internal_state.floating_windows[i].window \in Registered(editor)

\* A redraw has left a floating window while the dock tree holds the tab of
\* a plugin that is not registered.
C15_Witness ==
    /\ op = "redraw"
    /\ Len(internal_state.floating_windows) >= 1
    /\ \E tab \in DockTabs(internal_state.state) :
          tab # GameView /\ tab \notin Registered(editor)

\* The "ui" callbacks a step invoked, in order: the plugins whose content
\* was drawn.
ContentCalls(log) ==
    LET IsContentCall(c) == c[1] = "ui"
        content == SelectSeq(log, IsContentCall)
    IN  [i \in 1..Len(content) |-> content[i][2]]

\* The callbacks of the viewport tab.
ViewportCalls(log) ==
    {i \in 1..Len(log) : log[i][1] \in {"viewport_toolbar_ui", "viewport_ui"}}

\* C16: a redraw of an editor that is inactive after the menu-bar pass
\* draws and processes the floating windows (their rectangles are the ones
\* rendered, the closed windows are removed, the closed set is that of
\* this redraw) and sets pointer_used to wants_pointer_input; the dock
\* tree with its tabs and the viewport rectangle are unchanged, no viewport
\* callback is invoked and the only content drawn is that of the floating
\* windows, one call for each window of the list.
C16_InactiveRedraw ==
    [][(op' = "redraw" /\ ~editor'.active) =>
          LET before == internal_state.floating_windows
              after == internal_state'.floating_windows
          IN  /\ FloatingIds(internal_state') = FloatingIds(internal_state) \ input'.closed_ids
              /\ \A i \in 1..Len(after) : <<after[i].id, after[i].current_rect>> \in input'.rects
              /\ internal_state'.closed_floating_windows =
                    {before[i].window : i \in {j \in 1..Len(before) :
                                                  before[j].id \in input'.closed_ids}}
              /\ editor'.pointer_used = input'.wants_pointer_input
              /\ internal_state'.state = internal_state.state
              /\ editor'.viewport = editor.viewport
              /\ ViewportCalls(calls') = {}
              /\ ContentCalls(calls') = [i \in 1..Len(before) |-> before[i].window]]_vars

\* An inactive editor whose dock tree shows a plugin's tab has redrawn two
\* floating windows, closed one of them and moved the other, while the UI
\* framework wants the pointer.
C16_Witness ==
    /\ op = "redraw" /\ ~editor.active
    /\ input.closed_ids # {}
    /\ editor.pointer_used
    /\ Len(internal_state.floating_windows) = 1
    /\ internal_state.floating_windows[1].current_rect = <<1, MaxCoord>>
    /\ Len(calls) = 3
    /\ \E n \in 1..Len(internal_state.state.panes) :
          ActiveTab(internal_state.state.panes[n]) = Some(CustomWindow("A"))

\* C19: after the floating-window pass of a redraw the list holds exactly
\* the windows the pass met and the user did not close, each once (by id)
\* with its plugin and initial position, and the rectangle of each is the
\* one rendered in this pass for the window of that id.
C19_RemovalExact ==
    [][op' = "redraw" =>
          LET after == internal_state'.floating_windows
          IN  /\ Cardinality(FloatingIds(internal_state')) = Len(after)
              /\ FloatingIds(internal_state') = {x[2] : x \in DuringPass} \ input'.closed_ids
              /\ \A i \in 1..Len(after) :
                    /\ <<after[i].window, after[i].id>> \in DuringPass
                    /\ after[i].initial_position = NoneOpt
                    /\ <<after[i].id, after[i].current_rect>> \in input'.rects]_vars

\* The first of two windows was closed: the second took its place in the
\* list and has the rectangle it was rendered at, not that of the first.
C19_Witness ==
    /\ op = "redraw"
    /\ input.closed_ids = {0}
    /\ <<0, <<0, 1>>>> \in input.rects
    /\ Len(internal_state.floating_windows) = 1
    /\ internal_state.floating_windows[1].id = 1
    /\ internal_state.floating_windows[1].current_rect = <<1, MaxCoord>>

\* C17: a frame in which the UI context of the target window is not found
\* changes nothing of the editor, the layout store (dock tree, floating
\* windows, closed set) and the event queue and invokes no callback; the
\* next frame that finds the context runs the pass, menu bar first.
C17_MissingContextSkips ==
    [][/\ op' = "skip" =>
            /\ UNCHANGED <<editor, internal_state, editor_events>>
            /\ calls' = <<>>
       /\ (op = "skip" /\ op' = "redraw") =>
            Len(MenuBarCalls(calls')) = Len(editor'.windows)]_vars

\* A frame was skipped while a window floats and the closed set of the
\* redraw before is not empty.
C17_Witness ==
    /\ op = "skip"
    /\ calls = <<>>
    /\ Len(internal_state.floating_windows) >= 1
    /\ internal_state.closed_floating_windows # {}

\* C18: after every redraw, of an active or an inactive editor,
\* press_active tells whether the primary button is held in the frame's
\* input.
C18_PressActiveEveryRedraw ==
    op = "redraw" => editor.pointer_state.press_active = input.primary_down

\* The pointer of the last redraw is inside the viewport rectangle and
\* inside the rectangle of no floating window.
OverViewport ==
    /\ IsSome(input.pos)
    /\ is_in_viewport(editor, input.pos[1])
    /\ ~OverFloatingWindow

\* C20: the redraw in which the primary button is pressed sets
\* press_start_in_viewport to whether the pointer is inside the viewport
\* rectangle and inside no floating window's rectangle; an active redraw
\* with the button held and not pressed anew keeps the value; an active
\* redraw with the button neither pressed nor held makes it false.
C20_PressStartTracksHold ==
    [][op' = "redraw" =>
          /\ input'.primary_pressed =>
                editor'.pointer_state.press_start_in_viewport = OverViewport'
          /\ (editor'.active /\ ~input'.primary_pressed /\ input'.primary_down) =>
                editor'.pointer_state.press_start_in_viewport =
                    editor.pointer_state.press_start_in_viewport
          /\ (editor'.active /\ ~input'.primary_pressed /\ ~input'.primary_down) =>
                ~editor'.pointer_state.press_start_in_viewport]_vars

\* The tab the pop-out of the last redraw was made on, read in the tree
\* `tree` the redraw started from.
PoppedTab(tree, g) == tree.panes[g.pane].tabs[g.tab]

\* C21: a redraw in which "Pop out" is activated on a plugin's tab appends
\* exactly one entry to the floating-window list: the entry carries the
\* tab's plugin, the id the counter held (an id no entry has), no initial
\* position and the zero rectangle, which the floating pass of the same
\* redraw replaces by the rectangle rendered; the counter advances by one;
\* the dock tree, the event queue and the other entries (but for their
\* rectangles rendered anew) are as before.  Activated on the viewport
\* tab, it appends nothing and leaves the counter alone.
C21_PopOutEffect ==
    [][(op' = "redraw" /\ input'.gesture.kind = "popout") =>
        LET tab == PoppedTab(internal_state.state, input'.gesture)
            before == internal_state.floating_windows
            after == internal_state'.floating_windows
            id == internal_state.next_floating_window_id
        IN  /\ internal_state'.state = internal_state.state
            /\ editor_events' = editor_events
            /\ input'.closed_ids = {}
            /\ \A i \in 1..Len(before) :
                    /\ i <= Len(after)
                    /\ [after[i] EXCEPT !.current_rect = before[i].current_rect] = before[i]
            /\ IF tab = GameView
               THEN /\ input'.popped = <<>>
                    /\ Len(after) = Len(before)
                    /\ internal_state'.next_floating_window_id = id
               ELSE /\ input'.popped = <<FloatingWindow(tab, id, NoneOpt, RectZero)>>
                    /\ id \notin FloatingIds(internal_state)
                    /\ Len(after) = Len(before) + 1
                    /\ \E r \in input'.rects :
                          /\ r[1] = id
                          /\ after[Len(after)] = FloatingWindow(tab, id, NoneOpt, r[2])
                    /\ internal_state'.next_floating_window_id = id + 1]_vars

\* Plugin B's tab was popped out in the last redraw, next to the window of
\* plugin A opened before: the new entry is the second one and was
\* appended with the zero rectangle.
C21_Witness ==
    /\ op = "redraw"
    /\ input.gesture.kind = "popout"
    /\ Len(input.popped) = 1
    /\ input.popped[1].window = "B"
    /\ input.popped[1].current_rect = RectZero
    /\ Len(internal_state.floating_windows) = 2
    /\ internal_state.floating_windows[1].window = "A"
    /\ internal_state.floating_windows[2].window = "B"
    /\ internal_state.floating_windows[2].id = input.popped[1].id

\* How often the callback of the frame's script was invoked in `log`.
Fires(log, script) ==
    Cardinality({i \in 1..Len(log) : log[i] = <<script.callback, script.plugin>>})

\* The number of tabs `tab` in the panes 1..n of `tree`.
RECURSIVE TabCount(_, _, _)
TabCount(tree, tab, n) ==
    IF n = 0 THEN 0
    ELSE TabCount(tree, tab, n - 1) +
         Cardinality({t \in 1..Len(tree.panes[n].tabs) : tree.panes[n].tabs[t] = tab})

\* C22 as claimed: after a redraw (no tab is closed in it) the dock tree of
\* the layout store has every tab it had before, and for each invocation
\* of a callback that added a tab through the layout store of its context
\* one more tab of that plugin, whichever pass invoked the callback.
C22_CallbackTabsKept ==
    [][op' = "redraw" =>
        LET before == internal_state.state
            after == internal_state'.state
            added == CustomWindow(input'.script.window)
        IN  /\ \A tab \in DockTabs(before) :
                    TabCount(after, tab, Len(after.panes)) >=
                        TabCount(before, tab, Len(before.panes))
            /\ TabCount(after, added, Len(after.panes)) >=
                    TabCount(before, added, Len(before.panes)) +
                        Fires(calls', input'.script)]_vars

\* C23 as claimed: after every redraw the queries pointer_used() and
\* viewport_interaction_active() are not both true.
C23_ExclusivePointerOwnership ==
    op = "redraw" => ~(PointerUsed(editor) /\ ViewportInteractionActive(editor))

\* C24 as claimed: after every redraw of an active editor, with one pointer
\* button in use, the interaction owner is Viewport if and only if
\* press_start_in_viewport is true.
C24_OwnerAgreesWithPressStart ==
    (op = "redraw" /\ editor.active) =>
        (Owner = OwnerViewport <=> editor.pointer_state.press_start_in_viewport)

====
